---- MODULE Spec2Model ----
(***************************************************************************)
(* group-specific-variants.py: for every group (clade) of samples of a     *)
(* multiple sequence alignment, find the alignment columns at which all    *)
(* in-group rows carry one definite nucleotide that the out-group does not *)
(* share, and write them to <group>.txt in reference coordinates.          *)
(*                                                                         *)
(* Sample names and group names are naturals (their order is the order     *)
(* sorted() gives).  Row and column indices are 0-based as in the source;  *)
(* lists are TLA+ sequences, so list[i] of the source is list[i + 1] here. *)
(***************************************************************************)
EXTENDS Integers, Sequences, FiniteSets, TLC

VARIABLES
    args,             \* parsed command line: which paths exist, the method
    aln_file,         \* alignment FASTA: sample name -> sequence of characters
    group_dir,        \* group-list dir: group name -> list of member names
    pos_file,         \* tokens of the position file
    ref_file,         \* reference FASTA: the list of its sequences
    pc,               \* position of main()
    err,              \* the exception that ended the run, if any
    out_dir,          \* TRUE once os.makedirs(out_dir) has run
    aln_np, sq_name, num_sq, num_site,
    group_list, group_list_keys,
    ref_pos, ref_sq,
    gi,               \* position of the for loop in group_list_keys (1-based)
    ingr_ind, outgr_ind,
    count,            \* candidate-site table: column -> in-group code
    rm,               \* columns judged not group-specific
    pos, ref_nt, gr_nt,
    outfiles          \* files written in out_dir: group name -> lines

inputs == <<args, aln_file, group_dir, pos_file, ref_file>>
loaded == <<aln_np, sq_name, num_sq, num_site, group_list, group_list_keys, ref_pos>>
pergroup == <<ingr_ind, outgr_ind, count, rm, pos, ref_nt, gr_nt>>
vars == <<inputs, pc, err, out_dir, loaded, ref_sq, gi, pergroup, outfiles>>

----------------------------------------------------------------------------
(* Bounds of the model *)

NumSite == 2          \* columns of the multi-site alignments
MaxMembers == 2       \* longest group member list of the single-site runs

----------------------------------------------------------------------------
(* Symbol codec and Python/numpy helpers *)

nt2int == ("T" :> 0) @@ ("C" :> 1) @@ ("A" :> 2) @@ ("G" :> 3) @@
          ("-" :> 4) @@ ("N" :> 5) @@ ("?" :> 6)
int2nt == (0 :> "T") @@ (1 :> "C") @@ (2 :> "A") @@ (3 :> "G") @@
          (4 :> "-") @@ (5 :> "N") @@ (6 :> "?")

Range(s) == {s[i] : i \in 1..Len(s)}

RECURSIVE sorted(_)
sorted(S) ==
    IF S = {} THEN <<>>
    ELSE LET m == CHOOSE x \in S : \A y \in S : x <= y
         IN  <<m>> \o sorted(S \ {m})

\* list.index(x): 0-based position of the first occurrence
index(s, x) ==
    (CHOOSE i \in 1..Len(s) : s[i] = x /\ \A k \in 1..(i - 1) : s[k] # x) - 1

range(n) == [i \in 1..n |-> i - 1]

\* np.unique(a): the sorted distinct values of a
np_unique(a) == sorted(Range(a))

\* a[ind, :] : the rows of a picked by the index list ind
rows(a, ind) == [k \in 1..Len(ind) |-> a[ind[k] + 1]]

\* a[:, j] : column j of a
column(a, j) == [k \in 1..Len(a) |-> a[k][j + 1]]

NoError == [kind |-> "None", msg |-> ""]

ImportedModules == {"os", "argparse", "timeit", "numpy", "pyfaidx"}

\* sys.exit(msg) as main() calls it: the name sys has to be bound first
sys_exit(msg) ==
    IF "sys" \in ImportedModules
    THEN [kind |-> "SystemExit", msg |-> msg]
    ELSE [kind |-> "NameError", msg |-> "name 'sys' is not defined"]

----------------------------------------------------------------------------
(* main(): argument checks *)

ArgError(a) ==
    IF ~a.group_dir_ok THEN sys_exit("ERROR: invalid group-list dir")
    ELSE IF ~a.aln_ok THEN sys_exit("ERROR: invalid aln file")
    ELSE IF ~a.ref_ok THEN sys_exit("ERROR: invalid ref file")
    ELSE IF ~a.pos_ok THEN sys_exit("ERROR: invalid pos file")
    ELSE IF a.method \notin {1, 2, 3, 4} THEN sys_exit("ERROR: invalid method")
    ELSE NoError

CheckArgs ==
    /\ pc = "check"
    /\ err' = ArgError(args)
    /\ pc' = IF ArgError(args) = NoError THEN "load" ELSE "failed"
    /\ UNCHANGED <<inputs, out_dir, loaded, ref_sq, gi, pergroup, outfiles>>

----------------------------------------------------------------------------
(* get_aln and the loading of groups and positions *)

get_sq_name(aln) == sorted(DOMAIN aln)

get_aln_np(aln) ==
    LET names == get_sq_name(aln)
        n == Len(aln[names[1]])
    IN  [i \in 1..Len(names) |-> [j \in 1..n |-> nt2int[aln[names[i]][j]]]]

\* mutant: the keys in directory order (here: descending), not sorted
GroupListKeys_Unsorted(dir) ==
    LET up == sorted(DOMAIN dir)
    IN  [i \in 1..Len(up) |-> up[Len(up) + 1 - i]]

\* line 101
GroupListKeys(dir) == sorted(DOMAIN dir)

LoadInputs ==
    /\ pc = "load"
    /\ out_dir' = TRUE
    /\ aln_np' = get_aln_np(aln_file)
    /\ sq_name' = get_sq_name(aln_file)
    /\ num_sq' = Len(get_sq_name(aln_file))
    /\ num_site' = Len(aln_file[get_sq_name(aln_file)[1]])
    /\ group_list' = group_dir
    /\ group_list_keys' = GroupListKeys(group_dir)
    /\ ref_pos' = pos_file
    /\ pc' = "ref"
    /\ UNCHANGED <<inputs, err, ref_sq, gi, pergroup, outfiles>>

get_ref_sq_error(ref) ==
    IF Len(ref) = 1 THEN NoError
    ELSE [kind |-> "AssertionError",
          msg |-> "error: reference file contains more than one sequence"]

GetRefSq ==
    /\ pc = "ref"
    /\ err' = get_ref_sq_error(ref_file)
    /\ IF get_ref_sq_error(ref_file) = NoError
       THEN ref_sq' = ref_file[1] /\ pc' = "loop"
       ELSE ref_sq' = ref_sq /\ pc' = "failed"
    /\ UNCHANGED <<inputs, out_dir, loaded, gi, pergroup, outfiles>>

----------------------------------------------------------------------------
(* the loop over the groups *)

g == group_list_keys[gi]

\* mutant: the in-group rows in alignment row order, each once
IngrInd_RowOrder(members, names) ==
    sorted({i \in 0..(Len(names) - 1) : names[i + 1] \in Range(members)})

IngrInd(members, names) ==
    LET present(x) == x \in Range(names)
        matched == SelectSeq(members, present)
    IN  [k \in 1..Len(matched) |-> index(names, matched[k])]

\* mutant: the complement taken over 1..n instead of range(n)
OutgrInd_OneBased(n, ingr) ==
    LET outside(x) == x \notin Range(ingr)
    IN  SelectSeq([i \in 1..n |-> i], outside)

OutgrInd(n, ingr) ==
    LET outside(x) == x \notin Range(ingr)
    IN  SelectSeq(range(n), outside)

aln_ingr == rows(aln_np, ingr_ind)
aln_outgr == rows(aln_np, outgr_ind)

Partition ==
    /\ pc = "loop"
    /\ gi <= Len(group_list_keys)
    /\ count' = <<>>
    /\ ingr_ind' = IngrInd(group_list[g], sq_name)
    /\ outgr_ind' = OutgrInd(num_sq, IngrInd(group_list[g], sq_name))
    /\ pc' = "scan"
    /\ UNCHANGED <<inputs, err, out_dir, loaded, ref_sq, gi, rm, pos, ref_nt, gr_nt,
                   outfiles>>

Finish ==
    /\ pc = "loop"
    /\ gi > Len(group_list_keys)
    /\ pc' = "done"
    /\ UNCHANGED <<inputs, err, out_dir, loaded, ref_sq, gi, pergroup, outfiles>>

\* mutant: a gap (code 4) counts as a nucleotide
IsCandidate_Le4(a, j) ==
    LET unique == np_unique(column(a, j))
    IN  Len(unique) = 1 /\ unique[1] <= 4

\* lines 124-128: the columns whose in-group rows share one code below 4
IsCandidate(a, j) ==
    LET unique == np_unique(column(a, j))
    IN  Len(unique) = 1 /\ unique[1] < 4

\* mutant: with no in-group row every column counts as uniform (code 0)
SiteTable_Vacuous(a, n) ==
    [j \in {j \in 0..(n - 1) : a = <<>> \/ IsCandidate(a, j)} |->
        IF a = <<>> THEN 0 ELSE np_unique(column(a, j))[1]]

SiteTable(a, n) ==
    [j \in {j \in 0..(n - 1) : IsCandidate(a, j)} |-> np_unique(column(a, j))[1]]

ScanSites ==
    /\ pc = "scan"
    /\ count' = SiteTable(aln_ingr, num_site)
    /\ pc' = "compare"
    /\ UNCHANGED <<inputs, err, out_dir, loaded, ref_sq, gi, ingr_ind, outgr_ind, rm,
                   pos, ref_nt, gr_nt, outfiles>>

\* mutant: method 3 tests only the uniformity of the out-group
Criterion_NoBase3(method, nt, unique) ==
    LET U == Range(unique)
        non_nt == \E u \in U : u > 3
    IN  IF method = 1 /\ nt \in U THEN TRUE
        ELSE IF method = 2 /\ (nt \in U \/ non_nt) THEN TRUE
        ELSE IF method = 3 /\ Len(unique) > 1 THEN TRUE
        ELSE IF method = 4 /\ (nt \in U \/ Len(unique) > 1 \/ non_nt) THEN TRUE
        ELSE FALSE

\* mutant: np.greater(unique, 4), so that a gap is not a non-nucleotide
Criterion_Gt4(method, nt, unique) ==
    LET U == Range(unique)
        non_nt == \E u \in U : u > 4
    IN  IF method = 1 /\ nt \in U THEN TRUE
        ELSE IF method = 2 /\ (nt \in U \/ non_nt) THEN TRUE
        ELSE IF method = 3 /\ (nt \in U \/ Len(unique) > 1) THEN TRUE
        ELSE IF method = 4 /\ (nt \in U \/ Len(unique) > 1 \/ non_nt) THEN TRUE
        ELSE FALSE

\* mutant: method 4 without the test for a non-nucleotide (a copy of 3)
Criterion_Method4As3(method, nt, unique) ==
    LET U == Range(unique)
        non_nt == \E u \in U : u > 3
    IN  IF method = 1 /\ nt \in U THEN TRUE
        ELSE IF method = 2 /\ (nt \in U \/ non_nt) THEN TRUE
        ELSE IF method = 3 /\ (nt \in U \/ Len(unique) > 1) THEN TRUE
        ELSE IF method = 4 /\ (nt \in U \/ Len(unique) > 1) THEN TRUE
        ELSE FALSE

\* lines 136-146: the four criteria
Criterion(method, nt, unique) ==
    LET U == Range(unique)
        non_nt == \E u \in U : u > 3
    IN  IF method = 1 /\ nt \in U THEN TRUE
        ELSE IF method = 2 /\ (nt \in U \/ non_nt) THEN TRUE
        ELSE IF method = 3 /\ (nt \in U \/ Len(unique) > 1) THEN TRUE
        ELSE IF method = 4 /\ (nt \in U \/ Len(unique) > 1 \/ non_nt) THEN TRUE
        ELSE FALSE

RmList(method, cnt, a) ==
    LET bad(site) == Criterion(method, cnt[site], np_unique(column(a, site)))
    IN  SelectSeq(sorted(DOMAIN cnt), bad)

CompareOutgroup ==
    /\ pc = "compare"
    /\ rm' = RmList(args.method, count, aln_outgr)
    /\ pc' = "remove"
    /\ UNCHANGED <<inputs, err, out_dir, loaded, ref_sq, gi, ingr_ind, outgr_ind,
                   count, pos, ref_nt, gr_nt, outfiles>>

\* lines 149-151
DelSites(cnt, r) == [j \in (DOMAIN cnt) \ Range(r) |-> cnt[j]]

RemoveSites ==
    /\ pc = "remove"
    /\ count' = DelSites(count, rm)
    /\ rm' = <<>>
    /\ pc' = "map"
    /\ UNCHANGED <<inputs, err, out_dir, loaded, ref_sq, gi, ingr_ind, outgr_ind,
                   pos, ref_nt, gr_nt, outfiles>>

\* lines 154-157
count_keys == sorted(DOMAIN count)

MapError(cnt, rp) ==
    IF \E x \in DOMAIN cnt : x >= Len(rp)
    THEN [kind |-> "IndexError", msg |-> "list index out of range"]
    ELSE NoError

Pos(keys, rp) == [i \in 1..Len(keys) |-> rp[keys[i] + 1]]
\* mutant: the 1-based position used as a 0-based index
RefNt_ZeroBased(p, ref) == [i \in 1..Len(p) |-> ref[p[i] + 1]]

RefNt(p, ref) == [i \in 1..Len(p) |-> ref[(p[i] - 1) + 1]]
GrNt(keys, cnt) == [i \in 1..Len(keys) |-> int2nt[cnt[keys[i]]]]

MapCoordinates ==
    /\ pc = "map"
    /\ err' = MapError(count, ref_pos)
    /\ IF MapError(count, ref_pos) = NoError
       THEN /\ pos' = Pos(count_keys, ref_pos)
            /\ ref_nt' = RefNt(Pos(count_keys, ref_pos), ref_sq)
            /\ gr_nt' = GrNt(count_keys, count)
            /\ pc' = "write"
       ELSE /\ UNCHANGED <<pos, ref_nt, gr_nt>>
            /\ pc' = "failed"
    /\ UNCHANGED <<inputs, out_dir, loaded, ref_sq, gi, ingr_ind, outgr_ind, count, rm,
                   outfiles>>

\* lines 160-165: the header line, then one line per site
FileLines(cnt, p, r, gn) ==
    <<Cardinality(DOMAIN cnt)>> \o
    [i \in 1..Cardinality(DOMAIN cnt) |-> <<p[i], r[i], gn[i]>>]

WriteReport ==
    /\ pc = "write"
    /\ outfiles' = (g :> FileLines(count, pos, ref_nt, gr_nt)) @@ outfiles
    /\ gi' = gi + 1
    /\ pc' = "loop"
    /\ UNCHANGED <<inputs, err, out_dir, loaded, ref_sq, pergroup>>

----------------------------------------------------------------------------
(* Inputs *)

AbsentNames == {9}         \* a member name that no alignment has
RefSeq == <<"A", "C", "G">>
RefPositions == {1, 2}

ValidArgs(m) ==
    [group_dir_ok |-> TRUE, aln_ok |-> TRUE, ref_ok |-> TRUE, pos_ok |-> TRUE,
     method |-> m]

MemberLists(names, n) == UNION {[1..k -> names] : k \in 0..n}

PosTables(n) == UNION {[1..k -> RefPositions] : k \in {n - 1, n}}

Start ==
    /\ pc = "check"
    /\ err = NoError
    /\ out_dir = FALSE
    /\ aln_np = <<>> /\ sq_name = <<>> /\ num_sq = 0 /\ num_site = 0
    /\ group_list = <<>> /\ group_list_keys = <<>>
    /\ ref_pos = <<>> /\ ref_sq = <<>>
    /\ gi = 1
    /\ ingr_ind = <<>> /\ outgr_ind = <<>>
    /\ count = <<>> /\ rm = <<>>
    /\ pos = <<>> /\ ref_nt = <<>> /\ gr_nt = <<>>
    /\ outfiles = <<>>

\* one group over a three-sample, one-column alignment with every kind of code
InitSite ==
    /\ args \in {ValidArgs(m) : m \in {1, 2, 3, 4}}
    /\ aln_file \in [{2, 5, 7} -> [1..1 -> {"T", "C", "G", "-"}]]
    /\ group_dir \in [{3} -> MemberLists({2, 5, 7} \cup AbsentNames, MaxMembers)]
    /\ pos_file \in PosTables(1)
    /\ ref_file = <<RefSeq>>
    /\ Start

\* two groups over a two-sample alignment of NumSite columns
InitRun ==
    /\ args \in {ValidArgs(m) : m \in {1, 2, 3, 4}}
    /\ aln_file \in [{5, 7} -> [1..NumSite -> {"G", "-"}]]
    /\ group_dir \in [{3, 8} -> MemberLists({5, 7} \cup AbsentNames, 1)]
    /\ pos_file \in PosTables(NumSite)
    /\ ref_file = <<RefSeq>>
    /\ Start

\* runs with an invalid path, method or reference file
InitInvalid ==
    /\ args \in [group_dir_ok : BOOLEAN, aln_ok : BOOLEAN, ref_ok : BOOLEAN,
                 pos_ok : BOOLEAN, method : {0, 1, 5}]
    /\ ref_file \in {<<>>, <<RefSeq>>, <<RefSeq, RefSeq>>}
    /\ args # ValidArgs(1) \/ Len(ref_file) # 1
    /\ aln_file = [n \in {5, 7} |-> IF n = 5 THEN <<"G">> ELSE <<"T">>]
    /\ group_dir = [n \in {3, 8} |-> <<5>>]
    /\ pos_file = <<1>>
    /\ Start

Init == InitSite \/ InitRun \/ InitInvalid

Next ==
    \/ CheckArgs
    \/ LoadInputs
    \/ GetRefSq
    \/ Partition
    \/ ScanSites
    \/ CompareOutgroup
    \/ RemoveSites
    \/ MapCoordinates
    \/ WriteReport
    \/ Finish

Spec == Init /\ [][Next]_vars

----------------------------------------------------------------------------
(* The claims, stated on the input files and on what the run wrote *)

\* the alignment samples a group's member list names
InSamples(gr) == DOMAIN aln_file \cap Range(group_dir[gr])
OutSamples(gr) == DOMAIN aln_file \ Range(group_dir[gr])

\* the codes the given samples carry at column j (0-based)
CodesAt(samples, j) == {nt2int[aln_file[n][j + 1]] : n \in samples}

Columns == 0..(Len(aln_file[CHOOSE n \in DOMAIN aln_file : TRUE]) - 1)

\* the row index (0-based) of a sample: its rank among the sample names
RowOf(n) == Cardinality({m \in DOMAIN aln_file : m < n})

\* the group whose report WriteReport has just written
JustWritten == pc = "loop" /\ gi > 1
lastg == group_list_keys[gi - 1]

InLoop == pc \in {"scan", "compare", "remove", "map", "write"}

\* C1: every site written to a group's report is a column at which all
\* in-group rows carry one code c < 4 that no out-group row carries,
\* whatever the method.
C1_WrittenSitesExclusive ==
    JustWritten =>
        /\ Len(outfiles[lastg]) = 1 + Cardinality(DOMAIN count)
        /\ \A j \in DOMAIN count :
              /\ j \in Columns
              /\ CodesAt(InSamples(lastg), j) = {count[j]}
              /\ count[j] < 4
              /\ count[j] \notin CodesAt(OutSamples(lastg), j)

C1_Witness ==
    /\ JustWritten
    /\ DOMAIN count # {}
    /\ Cardinality(InSamples(lastg)) >= 2
    /\ OutSamples(lastg) # {}

\* the removal rule of each method, as the filter's table gives it
RemovalRule(m, c, U) ==
    CASE m = 1 -> c \in U
      [] m = 2 -> c \in U \/ \E u \in U : u >= 4
      [] m = 3 -> c \in U \/ Cardinality(U) > 1
      [] m = 4 -> c \in U \/ Cardinality(U) > 1 \/ \E u \in U : u >= 4

Removed(m) == Range(RmList(m, count, aln_outgr))

\* C3: for a fixed matrix and group the removal sets of the methods are
\* nested: 1 in 2, 1 in 3, 3 in 4 and 2 in 4.
C3_RemovalNested ==
    pc = "compare" =>
        /\ Removed(1) \subseteq Removed(2)
        /\ Removed(1) \subseteq Removed(3)
        /\ Removed(3) \subseteq Removed(4)
        /\ Removed(2) \subseteq Removed(4)

C3_Witness ==
    /\ pc = "compare"
    /\ Removed(1) = {}
    /\ Removed(2) # Removed(3)
    /\ Removed(4) # {}

\* C4: the candidate-site table holds exactly the columns at which the
\* in-group rows carry one common code c < 4, each mapped to that c.
C4_SiteTableExact ==
    pc = "compare" =>
        /\ DOMAIN count =
              {j \in Columns : \E c \in 0..3 : CodesAt(InSamples(g), j) = {c}}
        /\ \A j \in DOMAIN count : CodesAt(InSamples(g), j) = {count[j]}

C4_Witness ==
    /\ pc = "compare"
    /\ Cardinality(InSamples(g)) >= 2
    /\ DOMAIN count # {}

C4_WitnessExcluded ==
    /\ pc = "compare"
    /\ InSamples(g) # {}
    /\ DOMAIN count # Columns

\* C5: the in-group and out-group row index sets are disjoint and their
\* union is {0, ..., S-1}, S the number of alignment samples.
C5_PartitionComplete ==
    InLoop =>
        /\ Range(ingr_ind) \cap Range(outgr_ind) = {}
        /\ Range(ingr_ind) \cup Range(outgr_ind) =
              0..(Cardinality(DOMAIN aln_file) - 1)

C5_Witness ==
    /\ pc = "scan"
    /\ Len(group_dir[g]) = 2
    /\ Len(ingr_ind) = 1
    /\ outgr_ind # <<>>

EmptyGroup(gr) == InSamples(gr) = {}

\* C6: a group none of whose member names is in the alignment does not
\* raise; its report is the header 0 and no site line, and the loop goes on
\* to the next group.
C6_EmptyGroupSafe ==
    /\ \A gr \in DOMAIN outfiles : EmptyGroup(gr) => outfiles[gr] = <<0>>
    /\ \A k \in 1..Len(group_list_keys) :
          (k < gi /\ EmptyGroup(group_list_keys[k]))
             => group_list_keys[k] \in DOMAIN outfiles
    /\ (pc = "failed" /\ err.kind = "IndexError") => ~EmptyGroup(g)
    /\ (InLoop /\ pc # "scan" /\ EmptyGroup(g)) => count = <<>>

C6_Witness ==
    /\ pc = "done"
    /\ Len(group_list_keys) = 2
    /\ EmptyGroup(group_list_keys[1])
    /\ outfiles[group_list_keys[1]] = <<0>>
    /\ Len(outfiles[group_list_keys[2]]) > 1

\* C7: the first line of a report is the number of surviving sites and of
\* the site lines that follow; the lines are in ascending column order and
\* the line of column j carries ref_pos[j], the reference character at the
\* 1-based position ref_pos[j] and the character of the in-group at j.
C7_ReportLines ==
    JustWritten =>
        LET f == outfiles[lastg]
            D == DOMAIN count
        IN  /\ f[1] = Cardinality(D)
            /\ Len(f) = 1 + Cardinality(D)
            /\ \A j \in D :
                  LET i == 1 + Cardinality({k \in D : k < j})
                  IN  /\ f[i + 1][1] = pos_file[j + 1]
                      /\ f[i + 1][2] = ref_file[1][pos_file[j + 1]]
                      /\ \A n \in InSamples(lastg) :
                            f[i + 1][3] = aln_file[n][j + 1]

C7_Witness ==
    /\ JustWritten
    /\ Cardinality(DOMAIN count) >= 2
    /\ pos_file[1] > pos_file[2]

InvalidInput ==
    \/ ~args.group_dir_ok \/ ~args.aln_ok \/ ~args.ref_ok \/ ~args.pos_ok
    \/ args.method \notin {1, 2, 3, 4}
    \/ Len(ref_file) # 1

\* C8: an invalid path, an invalid method or a reference file without
\* exactly one sequence aborts the run with a descriptive message before
\* any report is written.
C8_AbortsDescriptively ==
    InvalidInput =>
        /\ outfiles = <<>>
        /\ pc \in {"check", "load", "ref", "failed"}
        /\ (pc = "failed" => err.kind \in {"SystemExit", "AssertionError"})

\* C9: the groups are processed in sorted name order, each report written
\* before the next group is analysed; a report once written is never changed
\* or removed, also when a later group fails, and no group after a failing
\* one gets a report.
C9_ReportsInOrderAndKept ==
    /\ [](/\ DOMAIN outfiles = {group_list_keys[k] : k \in 1..(gi - 1)}
          /\ gi - 1 <= Len(group_list_keys)
          /\ \A a, b \in 1..Len(group_list_keys) :
                a < b => group_list_keys[a] < group_list_keys[b]
          /\ (pc \notin {"check", "load", "failed"}
                => Range(group_list_keys) = DOMAIN group_dir))
    /\ [][/\ \A gr \in DOMAIN outfiles :
                gr \in DOMAIN outfiles' /\ outfiles'[gr] = outfiles[gr]
          /\ (pc = "failed" => outfiles' = outfiles)]_vars

C9_Witness ==
    /\ pc = "failed"
    /\ err.kind = "IndexError"
    /\ gi = 2
    /\ Len(outfiles[group_list_keys[1]]) > 1

\* C10 as stated: in_group_indices is in alignment row order (ascending row
\* index), not in the order of the group file.
C10_AlignmentRowOrder ==
    pc = "scan" =>
        \A a, b \in 1..Len(ingr_ind) : a < b => ingr_ind[a] <= ingr_ind[b]

MatchedMembers(gr) ==
    LET inAln(x) == x \in DOMAIN aln_file
    IN  SelectSeq(group_dir[gr], inAln)

\* C10 amended: in_group_indices follows the group file: entry k is the row
\* of the k-th member name that is in the alignment, repeated names repeated.
C10_GroupFileOrder ==
    pc = "scan" =>
        /\ Len(ingr_ind) = Len(MatchedMembers(g))
        /\ \A k \in 1..Len(ingr_ind) : ingr_ind[k] = RowOf(MatchedMembers(g)[k])

C10_Witness ==
    /\ pc = "scan"
    /\ Len(ingr_ind) = 2
    /\ ingr_ind[1] > ingr_ind[2]

====
